---- MODULE Spec2Model ----
(***************************************************************************)
(* A model of iostat (src/src/main.rs): the counter records and their      *)
(* delta arithmetic, the CPU percentages, the device classifier, the       *)
(* /proc/diskstats reader and the report cycle of main().                  *)
(*                                                                         *)
(* A u32 or u64 value is a sequence of 16-bit limbs, the most significant  *)
(* first (2 limbs for u32, 4 for u64), so that every value of the type,    *)
(* u32::MAX and u64::MAX included, is the value the program has.           *)
(***************************************************************************)
EXTENDS Integers, Sequences, FiniteSets, TLC

VARIABLES
    \* how the program was built: overflow checks on (debug) or off (release)
    build,
    \* command line (Args)
    args_count, omit_first, args_cpu, args_device, args_extended, args_interval,
    \* locals of main()
    pc, count, prev_cpu, prev_disk, curr_cpu, curr_disk,
    \* what main() did, as seen from outside
    out, emitted, sleeps, snapshots, read_failed, hist_cpu, hist_disk,
    \* the pure functions, called on their own
    fn, arg, ret

ctl == <<args_count, omit_first, args_cpu, args_device, args_extended,
         args_interval, pc, count, prev_cpu, prev_disk, curr_cpu, curr_disk,
         out, emitted, sleeps, snapshots, read_failed, hist_cpu, hist_disk>>
vars == <<build, args_count, omit_first, args_cpu, args_device, args_extended,
          args_interval, pc, count, prev_cpu, prev_disk, curr_cpu, curr_disk,
          out, emitted, sleeps, snapshots, read_failed, hist_cpu, hist_disk,
          fn, arg, ret>>

----------------------------------------------------------------------------
(* Bounds *)

\* the reports of a run that are explored: its first MaxReports and its last
MaxReports == 2
\* the largest small value drawn for a field of a delta input
MaxVal == 2
\* the most whitespace-separated fields of a generated /proc/diskstats line
MaxFields == 15

----------------------------------------------------------------------------
(* Unsigned integers of a fixed width *)

\* what a limb counts up to
Base == 2^16

\* the number v < Base at a width of n limbs
Small(v, n) == [i \in 1..n |-> IF i = n THEN v ELSE 0]

\* the largest number of n limbs
MaxOf(n) == [i \in 1..n |-> Base - 1]

\* u32::MAX
U32_MAX == MaxOf(2)

\* u64::MAX
U64_MAX == MaxOf(4)

\* 0u64
ZERO == Small(0, 4)

\* a < b
Less(a, b) ==
    \E i \in 1..Len(a) : a[i] < b[i] /\ \A j \in 1..(i - 1) : a[j] = b[j]

RECURSIVE add_from(_, _, _)
\* limbs i and after of a + b, and the carry out of limb i
add_from(a, b, i) ==
    IF i > Len(a) THEN [carry |-> 0, val |-> <<>>]
    ELSE LET rest == add_from(a, b, i + 1)
             s == a[i] + b[i] + rest.carry
         IN  [carry |-> s \div Base, val |-> <<s % Base>> \o rest.val]

\* a + b at the width of a: the wrapped sum and whether it overflowed
add(a, b) ==
    LET r == add_from(a, b, 1)
    IN  [overflow |-> r.carry # 0, val |-> r.val]

RECURSIVE sub_from(_, _, _)
\* limbs i and after of a - b, and the borrow out of limb i
sub_from(a, b, i) ==
    IF i > Len(a) THEN [borrow |-> 0, val |-> <<>>]
    ELSE LET rest == sub_from(a, b, i + 1)
             s == a[i] - b[i] - rest.borrow
         IN  [borrow |-> IF s < 0 THEN 1 ELSE 0, val |-> <<s % Base>> \o rest.val]

\* wrapping_sub: a - b modulo 2^width
wrapping_sub(a, b) == sub_from(a, b, 1).val

\* u64::saturating_sub / u32::saturating_sub
saturating_sub(a, b) ==
    IF Less(a, b) THEN Small(0, Len(a)) ELSE wrapping_sub(a, b)

RECURSIVE mul10_from(_, _, _)
\* limbs i and after of a * 10 + d, and the carry out of limb i
mul10_from(a, d, i) ==
    IF i > Len(a) THEN [carry |-> d, val |-> <<>>]
    ELSE LET rest == mul10_from(a, d, i + 1)
             s == a[i] * 10 + rest.carry
         IN  [carry |-> s \div Base, val |-> <<s % Base>> \o rest.val]

\* a * 10 + d at the width of a: the wrapped result and whether it overflowed
mul10_add(a, d) ==
    LET r == mul10_from(a, d, 1)
    IN  [overflow |-> r.carry # 0, val |-> r.val]

----------------------------------------------------------------------------
(* CounterSnapshot model: CpuStats and DiskStats *)

CpuFields == {"user", "nice", "system", "idle", "iowait", "irq", "softirq", "steal"}

DiskFields == {"reads_completed", "reads_merged", "sectors_read", "read_time_ms",
               "writes_completed", "writes_merged", "sectors_written",
               "write_time_ms", "io_in_progress", "io_time_ms",
               "weighted_io_time_ms"}

\* #[derive(Default)] on CpuStats
CpuStats_default == [f \in CpuFields |-> ZERO]

\* #[derive(Default)] on DiskStats
DiskStats_default == [f \in DiskFields |-> ZERO]

RECURSIVE add_all(_, _)
\* acc + s[1] + s[2] + ..., from left to right: the wrapped sum and whether
\* any of the additions overflowed
add_all(s, acc) ==
    IF s = <<>> THEN acc
    ELSE LET r == add(acc.val, Head(s))
         IN  add_all(Tail(s), [overflow |-> acc.overflow \/ r.overflow,
                               val |-> r.val])

\* CpuStats::total. An addition that overflows panics in a debug build and
\* wraps in a release build: overflow says that one did, val is the wrapped sum.
total(self) ==
    add_all(<<self.nice, self.system, self.idle, self.iowait, self.irq,
              self.softirq, self.steal>>,
            [overflow |-> FALSE, val |-> self.user])

\* CpuStats::delta with the fields subtracted without saturation
CpuStats_delta_wrapping(self, prev) ==
    [user    |-> wrapping_sub(self.user, prev.user),
     nice    |-> wrapping_sub(self.nice, prev.nice),
     system  |-> wrapping_sub(self.system, prev.system),
     idle    |-> wrapping_sub(self.idle, prev.idle),
     iowait  |-> wrapping_sub(self.iowait, prev.iowait),
     irq     |-> wrapping_sub(self.irq, prev.irq),
     softirq |-> wrapping_sub(self.softirq, prev.softirq),
     steal   |-> wrapping_sub(self.steal, prev.steal)]

\* CpuStats::delta
CpuStats_delta(self, prev) ==
    [user    |-> saturating_sub(self.user, prev.user),
     nice    |-> saturating_sub(self.nice, prev.nice),
     system  |-> saturating_sub(self.system, prev.system),
     idle    |-> saturating_sub(self.idle, prev.idle),
     iowait  |-> saturating_sub(self.iowait, prev.iowait),
     irq     |-> saturating_sub(self.irq, prev.irq),
     softirq |-> saturating_sub(self.softirq, prev.softirq),
     steal   |-> saturating_sub(self.steal, prev.steal)]

\* DiskStats::delta with the gauge subtracted like a cumulative counter
DiskStats_delta_gauge_subtracted(self, prev) ==
    [f \in DiskFields |-> saturating_sub(self[f], prev[f])]

\* DiskStats::delta
DiskStats_delta(self, prev) ==
    [reads_completed     |-> saturating_sub(self.reads_completed, prev.reads_completed),
     reads_merged        |-> saturating_sub(self.reads_merged, prev.reads_merged),
     sectors_read        |-> saturating_sub(self.sectors_read, prev.sectors_read),
     read_time_ms        |-> saturating_sub(self.read_time_ms, prev.read_time_ms),
     writes_completed    |-> saturating_sub(self.writes_completed, prev.writes_completed),
     writes_merged       |-> saturating_sub(self.writes_merged, prev.writes_merged),
     sectors_written     |-> saturating_sub(self.sectors_written, prev.sectors_written),
     write_time_ms       |-> saturating_sub(self.write_time_ms, prev.write_time_ms),
     io_in_progress      |-> self.io_in_progress,
     io_time_ms          |-> saturating_sub(self.io_time_ms, prev.io_time_ms),
     weighted_io_time_ms |-> saturating_sub(self.weighted_io_time_ms,
                                            prev.weighted_io_time_ms)]

\* One percentage, n as f64 / total * 100.0, kept as the fraction n / t of
\* which it is 100 times (the rounding of f64 is not modelled).
Pct(n, t) == [num |-> n, den |-> t]

\* the value 0.0
PctZero == [num |-> ZERO, den |-> Small(1, 4)]

\* CpuStats::percentages in the given build: (%user, %sys, %iowait, %steal,
\* %idle, %irq), or a panic when an addition overflows in a debug build. In a
\* release build the sums are the wrapped ones.
percentages(self, b) ==
    LET t == total(self)
    IN  IF b = "debug" /\ t.overflow
        THEN [panic |-> TRUE, pct |-> <<>>]
        ELSE IF t.val = ZERO
        THEN [panic |-> FALSE,
              pct |-> <<PctZero, PctZero, PctZero, PctZero, PctZero, PctZero>>]
        ELSE [panic |-> FALSE,
              pct |-> <<Pct(add(self.user, self.nice).val, t.val),
                        Pct(self.system, t.val),
                        Pct(self.iowait, t.val),
                        Pct(self.steal, t.val),
                        Pct(self.idle, t.val),
                        Pct(add(self.irq, self.softirq).val, t.val)>>]

\* print_device_stats: whether it panics. In extended mode it adds
\* reads_completed + writes_completed and, when that is not 0,
\* read_time_ms + write_time_ms; an overflow panics in a debug build.
print_device_stats_panics(delta, extended, b) ==
    /\ b = "debug"
    /\ extended
    /\ LET total_ios == add(delta.reads_completed, delta.writes_completed)
       IN  \/ total_ios.overflow
           \/ /\ total_ios.val # ZERO
              /\ add(delta.read_time_ms, delta.write_time_ms).overflow

----------------------------------------------------------------------------
(* ReportCycleController model: main() *)

\* the two ways the program is built
Builds == {"debug", "release"}

\* What read_cpu_stats() can return on success. The second is the first a
\* while later, with nice reset; the third has a counter at u64::MAX.
CpuSamples ==
    {[user |-> Small(4, 4), nice |-> Small(1, 4), system |-> Small(2, 4),
      idle |-> Small(9, 4), iowait |-> Small(1, 4), irq |-> Small(0, 4),
      softirq |-> Small(1, 4), steal |-> Small(0, 4)],
     [user |-> Small(7, 4), nice |-> Small(0, 4), system |-> Small(3, 4),
      idle |-> Small(12, 4), iowait |-> Small(1, 4), irq |-> Small(1, 4),
      softirq |-> Small(1, 4), steal |-> Small(2, 4)],
     [user |-> U64_MAX, nice |-> Small(1, 4), system |-> Small(6, 4),
      idle |-> Small(12, 4), iowait |-> Small(1, 4), irq |-> Small(1, 4),
      softirq |-> Small(1, 4), steal |-> Small(2, 4)]}

\* The whole-disk devices of the machine, in the order devices.sort() gives.
DeviceOrder == <<"sda", "sdb">>

Devices == {DeviceOrder[i] : i \in 1..Len(DeviceOrder)}

\* What a device's entry can be in a map read_disk_stats() returns. The
\* second of sdb has a counter at u64::MAX.
DiskSamples ==
    [sda |-> {[reads_completed |-> Small(5, 4), reads_merged |-> Small(1, 4),
               sectors_read |-> Small(16, 4), read_time_ms |-> Small(6, 4),
               writes_completed |-> Small(1, 4), writes_merged |-> Small(1, 4),
               sectors_written |-> Small(4, 4), write_time_ms |-> Small(2, 4),
               io_in_progress |-> Small(1, 4), io_time_ms |-> Small(9, 4),
               weighted_io_time_ms |-> Small(11, 4)]},
     sdb |-> {[reads_completed |-> Small(2, 4), reads_merged |-> Small(0, 4),
               sectors_read |-> Small(8, 4), read_time_ms |-> Small(3, 4),
               writes_completed |-> Small(1, 4), writes_merged |-> Small(0, 4),
               sectors_written |-> Small(4, 4), write_time_ms |-> Small(2, 4),
               io_in_progress |-> Small(2, 4), io_time_ms |-> Small(4, 4),
               weighted_io_time_ms |-> Small(5, 4)],
              [reads_completed |-> U64_MAX, reads_merged |-> Small(1, 4),
               sectors_read |-> Small(16, 4), read_time_ms |-> Small(6, 4),
               writes_completed |-> Small(4, 4), writes_merged |-> Small(1, 4),
               sectors_written |-> Small(4, 4), write_time_ms |-> Small(2, 4),
               io_in_progress |-> Small(0, 4), io_time_ms |-> Small(9, 4),
               weighted_io_time_ms |-> Small(11, 4)]}]

\* What read_disk_stats() can return on success: a map from some of the
\* devices to their counters.
DiskMaps ==
    UNION {{m \in [D -> UNION {DiskSamples[d] : d \in D}] :
               \A d \in D : m[d] \in DiskSamples[d]} : D \in SUBSET Devices}

\* the empty HashMap
NoDisks == [d \in {} |-> DiskStats_default]

\* args.interval, an f64, by what Duration::from_secs_f64 looks at: whether it
\* is a NaN, whether it is below zero, and whether its whole seconds fit u64.
IntervalSamples ==
    {[text |-> "1",    nan |-> FALSE, negative |-> FALSE, fits |-> TRUE],
     [text |-> "0.01", nan |-> FALSE, negative |-> FALSE, fits |-> TRUE],
     [text |-> "nan",  nan |-> TRUE,  negative |-> FALSE, fits |-> FALSE],
     [text |-> "inf",  nan |-> FALSE, negative |-> FALSE, fits |-> FALSE],
     [text |-> "1e30", nan |-> FALSE, negative |-> FALSE, fits |-> FALSE],
     [text |-> "-1",   nan |-> FALSE, negative |-> TRUE,  fits |-> TRUE]}

\* Duration::from_secs_f64 panics: the value is negative, not finite, or
\* overflows Duration.
from_secs_f64_panics(secs) == secs.nan \/ secs.negative \/ ~secs.fits

\* No report: nothing was printed in the current iteration.
NoReport == [kind |-> "none", show_cpu |-> FALSE, cpu |-> CpuStats_default,
             show_device |-> FALSE, dev |-> NoDisks, elapsed |-> "none",
             panicked |-> FALSE]

\* let show_cpu = args.cpu || (!args.cpu && !args.device)
show_cpu == args_cpu \/ (~args_cpu /\ ~args_device)

\* let show_device = args.device || (!args.cpu && !args.device)
show_device == args_device \/ (~args_cpu /\ ~args_device)

\* a counter of what main() did: 48 bits, wider than any u32 count
Tally(n) == Small(n, 3)

\* c + 1
Succ(c) == add(c, Small(1, Len(c))).val

\* The state of main() after Args::parse(). count is not declared yet.
InitCtl ==
    /\ args_count \in {Small(n, 2) : n \in 0..MaxReports}
    /\ omit_first \in BOOLEAN
    /\ args_cpu \in BOOLEAN
    /\ args_device \in BOOLEAN
    /\ args_extended \in BOOLEAN
    /\ args_interval \in IntervalSamples
    /\ count = Small(0, 2)
    /\ pc = "start"
    /\ prev_cpu = CpuStats_default
    /\ prev_disk = NoDisks
    /\ curr_cpu = CpuStats_default
    /\ curr_disk = NoDisks
    /\ out = NoReport
    /\ emitted = Tally(0)
    /\ sleeps = Tally(0)
    /\ snapshots = Tally(0)
    /\ read_failed = FALSE
    /\ hist_cpu = <<CpuStats_default, CpuStats_default>>
    /\ hist_disk = <<NoDisks, NoDisks>>

\* The pure-function variables while the controller runs.
UnitIdle == fn = "none" /\ arg = <<>> /\ ret = <<>>

\* let interval = Duration::from_secs_f64(args.interval);
\* let mut count = if args.count == 0 { u32::MAX } else { args.count };
Setup ==
    /\ pc = "start"
    /\ ~from_secs_f64_panics(args_interval)
    /\ count' = IF args_count = Small(0, 2) THEN U32_MAX ELSE args_count
    /\ pc' = "init_cpu"
    /\ UNCHANGED <<build, args_count, omit_first, args_cpu, args_device,
                   args_extended, args_interval, prev_cpu, prev_disk, curr_cpu,
                   curr_disk, out, emitted, sleeps, snapshots, read_failed,
                   hist_cpu, hist_disk, fn, arg, ret>>

\* let interval = Duration::from_secs_f64(args.interval);  it panics
SetupPanic ==
    /\ pc = "start"
    /\ from_secs_f64_panics(args_interval)
    /\ pc' = "panicked"
    /\ UNCHANGED <<build, args_count, omit_first, args_cpu, args_device,
                   args_extended, args_interval, count, prev_cpu, prev_disk,
                   curr_cpu, curr_disk, out, emitted, sleeps, snapshots,
                   read_failed, hist_cpu, hist_disk, fn, arg, ret>>

\* let mut prev_cpu = read_cpu_stats()?;  the read succeeds
InitReadCpu ==
    /\ pc = "init_cpu"
    /\ \E c \in CpuSamples :
          /\ prev_cpu' = c
          /\ hist_cpu' = <<hist_cpu[2], c>>
    /\ pc' = "init_disk"
    /\ UNCHANGED <<build, args_count, omit_first, args_cpu, args_device,
                   args_extended, args_interval, count, prev_disk, curr_cpu,
                   curr_disk, out, emitted, sleeps, snapshots, read_failed,
                   hist_disk, fn, arg, ret>>

\* let mut prev_cpu = read_cpu_stats()?;  the read fails and ? returns the Err
InitReadCpuFail ==
    /\ pc = "init_cpu"
    /\ read_failed' = TRUE
    /\ pc' = "failed"
    /\ UNCHANGED <<build, args_count, omit_first, args_cpu, args_device,
                   args_extended, args_interval, count, prev_cpu, prev_disk,
                   curr_cpu, curr_disk, out, emitted, sleeps, snapshots,
                   hist_cpu, hist_disk, fn, arg, ret>>

\* let mut prev_disk = read_disk_stats()?;  the read succeeds
InitReadDisk ==
    /\ pc = "init_disk"
    /\ \E m \in DiskMaps :
          /\ prev_disk' = m
          /\ hist_disk' = <<hist_disk[2], m>>
    /\ snapshots' = Succ(snapshots)
    /\ pc' = "first"
    /\ UNCHANGED <<build, args_count, omit_first, args_cpu, args_device,
                   args_extended, args_interval, count, prev_cpu, curr_cpu,
                   curr_disk, out, emitted, sleeps, read_failed, hist_cpu,
                   fn, arg, ret>>

\* let mut prev_disk = read_disk_stats()?;  the read fails and ? returns the Err
InitReadDiskFail ==
    /\ pc = "init_disk"
    /\ read_failed' = TRUE
    /\ pc' = "failed"
    /\ UNCHANGED <<build, args_count, omit_first, args_cpu, args_device,
                   args_extended, args_interval, count, prev_cpu, prev_disk,
                   curr_cpu, curr_disk, out, emitted, sleeps, snapshots,
                   hist_cpu, hist_disk, fn, arg, ret>>

\* print_cpu_stats(&delta) is reached and panics
cpu_section_panics(delta) == show_cpu /\ percentages(delta, build).panic

\* the device lines that are printed before print_device_stats panics, if it
\* does: the for loop goes through the sorted names
lines_printed(deltas) ==
    {DeviceOrder[i] : i \in {k \in 1..Len(DeviceOrder) :
        /\ DeviceOrder[k] \in DOMAIN deltas
        /\ \A j \in 1..k : DeviceOrder[j] \in DOMAIN deltas =>
              ~print_device_stats_panics(deltas[DeviceOrder[j]], args_extended, build)}}

\* What a report prints: the counters fed to print_cpu_stats when the CPU
\* section is shown, and those fed to print_device_stats for each line of the
\* device section, up to a panic.
report_of(kind, cpu, deltas, elapsed) ==
    LET cpu_panics == cpu_section_panics(cpu)
        printed == lines_printed(deltas)
    IN  [kind |-> kind,
         show_cpu |-> show_cpu,
         cpu |-> IF show_cpu THEN cpu ELSE CpuStats_default,
         show_device |-> show_device /\ ~cpu_panics,
         dev |-> IF show_device /\ ~cpu_panics
                 THEN [d \in printed |-> deltas[d]]
                 ELSE NoDisks,
         elapsed |-> elapsed,
         panicked |-> cpu_panics \/ (show_device /\ printed # DOMAIN deltas)]

\* the deltas fed to the device lines of the first report
first_deltas == [d \in DOMAIN prev_disk |-> DiskStats_default]

\* the deltas fed to the device lines of an interval report: a line for each
\* device of curr_disk that prev_disk has too
interval_deltas ==
    [d \in DOMAIN curr_disk \cap DOMAIN prev_disk |->
        DiskStats_delta(curr_disk[d], prev_disk[d])]

\* if !args.omit_first { ... }: the since-boot report, the decrement of count
\* and the return when it reaches zero
FirstReport ==
    /\ pc = "first"
    /\ ~omit_first
    /\ out' = report_of("first", prev_cpu, first_deltas, "1.0")
    /\ ~out'.panicked
    /\ emitted' = Succ(emitted)
    /\ count' = saturating_sub(count, Small(1, 2))
    /\ pc' = IF count' = Small(0, 2) THEN "done" ELSE "sleep"
    /\ UNCHANGED <<build, args_count, omit_first, args_cpu, args_device,
                   args_extended, args_interval, prev_cpu, prev_disk, curr_cpu,
                   curr_disk, sleeps, snapshots, read_failed, hist_cpu,
                   hist_disk, fn, arg, ret>>

\* if !args.omit_first { ... }: print_cpu_stats(&prev_cpu) panics on an
\* overflow of total(); what was printed so far stays, nothing follows
FirstReportPanic ==
    /\ pc = "first"
    /\ ~omit_first
    /\ out' = report_of("first", prev_cpu, first_deltas, "1.0")
    /\ out'.panicked
    /\ pc' = "panicked"
    /\ UNCHANGED <<build, args_count, omit_first, args_cpu, args_device,
                   args_extended, args_interval, count, prev_cpu, prev_disk,
                   curr_cpu, curr_disk, emitted, sleeps, snapshots,
                   read_failed, hist_cpu, hist_disk, fn, arg, ret>>

\* if !args.omit_first is false: straight to the loop
SkipFirst ==
    /\ pc = "first"
    /\ omit_first
    /\ pc' = "sleep"
    /\ UNCHANGED <<build, args_count, omit_first, args_cpu, args_device,
                   args_extended, args_interval, count, prev_cpu, prev_disk,
                   curr_cpu, curr_disk, out, emitted, sleeps, snapshots,
                   read_failed, hist_cpu, hist_disk, fn, arg, ret>>

\* The iterations of a run that are followed: its first MaxReports reports
\* and those with at most MaxReports reports left.
Followed ==
    \/ Less(emitted, Tally(MaxReports))
    \/ ~Less(Small(MaxReports, 2), count)

\* thread::sleep(interval); io::stdout().flush()?;  a new iteration begins,
\* with nothing printed in it yet. (Every println! ends its line, so the
\* line-buffered stdout has nothing left for the flush to write.)
Sleep ==
    /\ pc = "sleep"
    /\ Followed
    /\ sleeps' = Succ(sleeps)
    /\ out' = NoReport
    /\ pc' = "read_cpu"
    /\ UNCHANGED <<build, args_count, omit_first, args_cpu, args_device,
                   args_extended, args_interval, count, prev_cpu, prev_disk,
                   curr_cpu, curr_disk, emitted, snapshots, read_failed,
                   hist_cpu, hist_disk, fn, arg, ret>>

\* let curr_cpu = read_cpu_stats()?;  the read succeeds
ReadCpu ==
    /\ pc = "read_cpu"
    /\ \E c \in CpuSamples :
          /\ curr_cpu' = c
          /\ hist_cpu' = <<hist_cpu[2], c>>
    /\ pc' = "read_disk"
    /\ UNCHANGED <<build, args_count, omit_first, args_cpu, args_device,
                   args_extended, args_interval, count, prev_cpu, prev_disk,
                   curr_disk, out, emitted, sleeps, snapshots, read_failed,
                   hist_disk, fn, arg, ret>>

\* let curr_cpu = read_cpu_stats()?;  the read fails and ? returns the Err
ReadCpuFail ==
    /\ pc = "read_cpu"
    /\ read_failed' = TRUE
    /\ pc' = "failed"
    /\ UNCHANGED <<build, args_count, omit_first, args_cpu, args_device,
                   args_extended, args_interval, count, prev_cpu, prev_disk,
                   curr_cpu, curr_disk, out, emitted, sleeps, snapshots,
                   hist_cpu, hist_disk, fn, arg, ret>>

\* let curr_disk = read_disk_stats()?;  the read succeeds
ReadDisk ==
    /\ pc = "read_disk"
    /\ \E m \in DiskMaps :
          /\ curr_disk' = m
          /\ hist_disk' = <<hist_disk[2], m>>
    /\ snapshots' = Succ(snapshots)
    /\ pc' = "report"
    /\ UNCHANGED <<build, args_count, omit_first, args_cpu, args_device,
                   args_extended, args_interval, count, prev_cpu, prev_disk,
                   curr_cpu, out, emitted, sleeps, read_failed, hist_cpu,
                   fn, arg, ret>>

\* a failed read of the disk counters that main() answers by reading again
ReadDiskFail_retry ==
    /\ pc = "read_disk"
    /\ read_failed' = TRUE
    /\ pc' = "read_disk"
    /\ UNCHANGED <<build, args_count, omit_first, args_cpu, args_device,
                   args_extended, args_interval, count, prev_cpu, prev_disk,
                   curr_cpu, curr_disk, out, emitted, sleeps, snapshots,
                   hist_cpu, hist_disk, fn, arg, ret>>

\* let curr_disk = read_disk_stats()?;  the read fails and ? returns the Err
ReadDiskFail ==
    /\ pc = "read_disk"
    /\ read_failed' = TRUE
    /\ pc' = "failed"
    /\ UNCHANGED <<build, args_count, omit_first, args_cpu, args_device,
                   args_extended, args_interval, count, prev_cpu, prev_disk,
                   curr_cpu, curr_disk, out, emitted, sleeps, snapshots,
                   hist_cpu, hist_disk, fn, arg, ret>>

\* The rest of the loop body: the CPU section, the device section (a line for
\* each device of curr_disk that prev_disk has too), prev_cpu = curr_cpu,
\* prev_disk = curr_disk (both moved), the decrement of count and the break
\* at zero.
Report ==
    /\ pc = "report"
    /\ out' = report_of("interval", CpuStats_delta(curr_cpu, prev_cpu),
                        interval_deltas, args_interval.text)
    /\ ~out'.panicked
    /\ emitted' = Succ(emitted)
    /\ prev_cpu' = curr_cpu
    /\ prev_disk' = curr_disk
    /\ curr_cpu' = CpuStats_default
    /\ curr_disk' = NoDisks
    /\ count' = saturating_sub(count, Small(1, 2))
    /\ pc' = IF count' = Small(0, 2) THEN "done" ELSE "sleep"
    /\ UNCHANGED <<build, args_count, omit_first, args_cpu, args_device,
                   args_extended, args_interval, sleeps, snapshots,
                   read_failed, hist_cpu, hist_disk, fn, arg, ret>>

\* The loop body when print_cpu_stats or print_device_stats panics on an
\* overflow: what was printed so far stays, the previous snapshot is not
\* replaced, count is not decremented, nothing follows.
ReportPanic ==
    /\ pc = "report"
    /\ out' = report_of("interval", CpuStats_delta(curr_cpu, prev_cpu),
                        interval_deltas, args_interval.text)
    /\ out'.panicked
    /\ pc' = "panicked"
    /\ UNCHANGED <<build, args_count, omit_first, args_cpu, args_device,
                   args_extended, args_interval, count, prev_cpu, prev_disk,
                   curr_cpu, curr_disk, emitted, sleeps, snapshots,
                   read_failed, hist_cpu, hist_disk, fn, arg, ret>>

Init == build \in Builds /\ InitCtl /\ UnitIdle

Next ==
    \/ Setup
    \/ SetupPanic
    \/ InitReadCpu
    \/ InitReadCpuFail
    \/ InitReadDisk
    \/ InitReadDiskFail
    \/ FirstReport
    \/ FirstReportPanic
    \/ SkipFirst
    \/ Sleep
    \/ ReadCpu
    \/ ReadCpuFail
    \/ ReadDisk
    \/ ReadDiskFail
    \/ Report
    \/ ReportPanic

Spec == Init /\ [][Next]_vars

\* b widened by a limb
Widen(b) == <<0>> \o b

\* The loop of main() late in a run with count 0, when all but a few of the
\* u32::MAX reports have been emitted: an iteration has slept and is about to
\* read. (emitted + count = u32::MAX all along such a run.)
InitLate ==
    /\ build \in Builds
    /\ UnitIdle
    /\ args_count = Small(0, 2)
    /\ omit_first \in BOOLEAN
    /\ args_cpu \in BOOLEAN
    /\ args_device \in BOOLEAN
    /\ args_extended \in BOOLEAN
    /\ args_interval \in {i \in IntervalSamples : ~from_secs_f64_panics(i)}
    /\ count \in {Small(k, 2) : k \in 1..MaxReports}
    /\ pc = "read_cpu"
    /\ prev_cpu \in CpuSamples
    /\ prev_disk \in DiskMaps
    /\ curr_cpu = CpuStats_default
    /\ curr_disk = NoDisks
    /\ out = NoReport
    /\ emitted = wrapping_sub(Widen(U32_MAX), Widen(count))
    /\ sleeps = IF omit_first THEN Succ(emitted) ELSE emitted
    /\ snapshots = sleeps
    /\ read_failed = FALSE
    /\ hist_cpu = <<prev_cpu, prev_cpu>>
    /\ hist_disk = <<prev_disk, prev_disk>>

NextLate ==
    \/ Sleep
    \/ ReadCpu
    \/ ReadCpuFail
    \/ ReadDisk
    \/ ReadDiskFail
    \/ Report
    \/ ReportPanic

SpecLate == InitLate /\ [][NextLate]_vars

----------------------------------------------------------------------------
(* Strings, as sequences of characters. A character is a one-character     *)
(* string; a character that a string of this language cannot hold is the   *)
(* name of its code point ("U+3000").                                      *)

Digits == {"0", "1", "2", "3", "4", "5", "6", "7", "8", "9"}

\* char::is_ascii_digit
is_ascii_digit(c) == c \in Digits

\* s.chars().all(|c| c.is_ascii_digit())
all_digits(s) == \A i \in 1..Len(s) : is_ascii_digit(s[i])

\* str::contains with a &str pattern
contains(s, pat) ==
    \E i \in 1..(Len(s) - Len(pat) + 1) : SubSeq(s, i, i + Len(pat) - 1) = pat

\* str::contains with a char pattern
contains_char(s, c) == \E i \in 1..Len(s) : s[i] = c

\* str::starts_with
starts_with(s, pre) == Len(s) >= Len(pre) /\ SubSeq(s, 1, Len(pre)) = pre

\* s.chars().skip(n).collect()
skip(s, n) == SubSeq(s, n + 1, Len(s))

\* str::split with a char pattern, collected: the segments between the
\* occurrences of c, empty ones included
RECURSIVE split(_, _)
split(s, c) ==
    IF ~contains_char(s, c)
    THEN <<s>>
    ELSE LET i == CHOOSE k \in 1..Len(s) :
                     s[k] = c /\ \A j \in 1..(k - 1) : s[j] # c
         IN  <<SubSeq(s, 1, i - 1)>> \o split(SubSeq(s, i + 1, Len(s)), c)

\* char::is_whitespace: the characters with the Unicode property White_Space,
\* which are U+0009 to U+000D, U+0020, U+0085, U+00A0, U+1680, U+2000 to
\* U+200A, U+2028, U+2029, U+202F, U+205F and U+3000 (the first line holds
\* the first nine of them, as themselves)
Whitespace ==
    {"\t", "\n", "", "\f", "\r", " ", "", " ", " ",
     "U+2000", "U+2001", "U+2002", "U+2003", "U+2004", "U+2005", "U+2006",
     "U+2007", "U+2008", "U+2009", "U+200A", "U+2028", "U+2029", "U+202F",
     "U+205F", "U+3000"}

RECURSIVE split_ws(_, _, _)
split_ws(s, cur, acc) ==
    IF s = <<>>
    THEN IF cur = <<>> THEN acc ELSE Append(acc, cur)
    ELSE IF Head(s) \in Whitespace
         THEN split_ws(Tail(s), <<>>, IF cur = <<>> THEN acc ELSE Append(acc, cur))
         ELSE split_ws(Tail(s), Append(cur, Head(s)), acc)

\* str::split_whitespace, collected: the non-empty runs of characters that
\* are not whitespace
split_whitespace(s) == split_ws(s, <<>>, <<>>)

\* the value of a decimal digit
digit_value(c) ==
    CASE c = "0" -> 0 [] c = "1" -> 1 [] c = "2" -> 2 [] c = "3" -> 3
      [] c = "4" -> 4 [] c = "5" -> 5 [] c = "6" -> 6 [] c = "7" -> 7
      [] c = "8" -> 8 [] c = "9" -> 9

RECURSIVE decimal(_, _)
\* the digits of s read into acc, and whether the number went past u64::MAX
decimal(s, acc) ==
    IF s = <<>> THEN acc
    ELSE LET r == mul10_add(acc.val, digit_value(Head(s)))
         IN  decimal(Tail(s), [overflow |-> acc.overflow \/ r.overflow,
                               val |-> r.val])

\* str::parse::<u64>: an optional "+", then one or more decimal digits whose
\* number is at most u64::MAX; anything else is an Err
parse_u64(s) ==
    LET body == IF s # <<>> /\ Head(s) = "+" THEN Tail(s) ELSE s
        n == decimal(body, [overflow |-> FALSE, val |-> ZERO])
    IN  IF body # <<>> /\ all_digits(body) /\ ~n.overflow
        THEN [ok |-> TRUE, val |-> n.val]
        ELSE [ok |-> FALSE, val |-> ZERO]

\* parts[i].parse().unwrap_or(0)
parse_or_zero(s) ==
    LET r == parse_u64(s)
    IN  IF r.ok THEN r.val ELSE ZERO

----------------------------------------------------------------------------
(* Device classifier *)

\* is_partition
is_partition(name) ==
    IF /\ contains(name, <<"n", "v", "m", "e">>)
       /\ contains_char(name, "p")
       /\ Len(split(name, "p")) > 1
    THEN LET parts == split(name, "p")
             last == parts[Len(parts)]
         IN  all_digits(last) /\ last # <<>>
    ELSE IF \/ starts_with(name, <<"s", "d">>)
            \/ starts_with(name, <<"h", "d">>)
            \/ starts_with(name, <<"v", "d">>)
         THEN LET suffix == skip(name, 3)
              IN  all_digits(suffix) /\ suffix # <<>>
         ELSE IF starts_with(name, <<"l", "o", "o", "p">>) /\ contains_char(name, "p")
              THEN TRUE
              ELSE FALSE

----------------------------------------------------------------------------
(* The /proc/diskstats reader *)

\* if parts.len() > 14: a line of exactly 14 fields is dropped
line_accepted_off_by_one(parts) == Len(parts) > 14

\* if parts.len() >= 14
line_accepted(parts) == Len(parts) >= 14

\* the DiskStats { ... } literal of read_disk_stats
disk_stats_of(parts) ==
    [reads_completed     |-> parse_or_zero(parts[4]),
     reads_merged        |-> parse_or_zero(parts[5]),
     sectors_read        |-> parse_or_zero(parts[6]),
     read_time_ms        |-> parse_or_zero(parts[7]),
     writes_completed    |-> parse_or_zero(parts[8]),
     writes_merged       |-> parse_or_zero(parts[9]),
     sectors_written     |-> parse_or_zero(parts[10]),
     write_time_ms       |-> parse_or_zero(parts[11]),
     io_in_progress      |-> parse_or_zero(parts[12]),
     io_time_ms          |-> parse_or_zero(parts[13]),
     weighted_io_time_ms |-> parse_or_zero(parts[14])]

\* HashMap::insert
insert(m, k, v) == [x \in DOMAIN m \cup {k} |-> IF x = k THEN v ELSE m[x]]

\* the for loop of read_disk_stats over content.lines()
RECURSIVE read_lines(_, _)
read_lines(lines, stats) ==
    IF lines = <<>>
    THEN stats
    ELSE LET parts == split_whitespace(Head(lines))
         IN  IF line_accepted(parts) /\ ~is_partition(parts[3])
             THEN read_lines(Tail(lines), insert(stats, parts[3], disk_stats_of(parts)))
             ELSE read_lines(Tail(lines), stats)

\* read_disk_stats, once /proc/diskstats was read: the lines of the content
\* to the map of the whole-disk devices
read_disk_stats(content) == read_lines(content, NoDisks)

----------------------------------------------------------------------------
(* The pure functions called on their own *)

\* The controller's variables while a pure function is called on its own.
CtlIdle ==
    /\ args_count = Small(0, 2)
    /\ omit_first = FALSE
    /\ args_cpu = FALSE
    /\ args_device = FALSE
    /\ args_extended = FALSE
    /\ args_interval \in {i \in IntervalSamples : i.text = "1"}
    /\ count = Small(0, 2)
    /\ pc = "idle"
    /\ prev_cpu = CpuStats_default
    /\ prev_disk = NoDisks
    /\ curr_cpu = CpuStats_default
    /\ curr_disk = NoDisks
    /\ out = NoReport
    /\ emitted = Tally(0)
    /\ sleeps = Tally(0)
    /\ snapshots = Tally(0)
    /\ read_failed = FALSE
    /\ hist_cpu = <<CpuStats_default, CpuStats_default>>
    /\ hist_disk = <<NoDisks, NoDisks>>

\* 2^63, half the range of u64
HALF == [i \in 1..4 |-> IF i = 1 THEN Base \div 2 ELSE 0]

\* The values of a counter: the small ones, 2^63 and u64::MAX.
CounterValues == {Small(v, 4) : v \in 0..MaxVal} \cup {HALF, U64_MAX}

\* Counter records to take deltas of: every field at a base value, but one.
CpuInputs ==
    {[g \in CpuFields |-> IF g = f THEN v ELSE b] :
        f \in CpuFields, v \in CounterValues, b \in {Small(0, 4), Small(1, 4), HALF}}

DiskInputs ==
    {[g \in DiskFields |-> IF g = f THEN v ELSE b] :
        f \in DiskFields, v \in CounterValues, b \in {Small(0, 4), Small(1, 4)}}

InitDelta ==
    /\ build \in Builds
    /\ CtlIdle
    /\ fn = "input"
    /\ ret = <<>>
    /\ \/ \E c \in CpuInputs, p \in CpuInputs :
             arg = [kind |-> "cpu", self |-> c, prev |-> p]
       \/ \E c \in DiskInputs, p \in DiskInputs :
             arg = [kind |-> "disk", self |-> c, prev |-> p]

\* let delta = curr_cpu.delta(&prev_cpu);
CallCpuDelta ==
    /\ fn = "input"
    /\ arg.kind = "cpu"
    /\ ret' = [delta |-> CpuStats_delta(arg.self, arg.prev)]
    /\ fn' = "CpuStats::delta"
    /\ UNCHANGED <<build, ctl, arg>>

\* let delta = curr.delta(prev);
CallDiskDelta ==
    /\ fn = "input"
    /\ arg.kind = "disk"
    /\ ret' = [delta |-> DiskStats_delta(arg.self, arg.prev)]
    /\ fn' = "DiskStats::delta"
    /\ UNCHANGED <<build, ctl, arg>>

\* print_cpu_stats(&delta): let (user, sys, iowait, steal, idle, irq) =
\* delta.percentages();
CallPercentages ==
    /\ fn = "CpuStats::delta"
    /\ ret' = [delta |-> ret.delta,
               panic |-> percentages(ret.delta, build).panic,
               pct |-> percentages(ret.delta, build).pct]
    /\ fn' = "CpuStats::percentages"
    /\ UNCHANGED <<build, ctl, arg>>

NextDelta == CallCpuDelta \/ CallDiskDelta \/ CallPercentages

SpecDelta == InitDelta /\ [][NextDelta]_vars

\* Device names to classify: a family prefix, a body and a suffix.
NamePrefixes ==
    {<<"s", "d">>, <<"h", "d">>, <<"v", "d">>, <<"n", "v", "m", "e">>,
     <<"l", "o", "o", "p">>, <<"d", "m", "-">>, <<"m", "d">>, <<"s", "r">>}

NameBodies == {<<>>, <<"a">>, <<"0">>, <<"0", "n", "1">>, <<"a", "b">>, <<"1", "7">>}

NameSuffixes == {<<>>, <<"1">>, <<"p", "1">>, <<"p">>, <<"1", "2">>, <<"p", "1", "a">>}

Names == {p \o b \o x : p \in NamePrefixes, b \in NameBodies, x \in NameSuffixes}

RECURSIVE join(_, _)
\* the fields of a line, separated by sep
join(toks, sep) ==
    IF toks = <<>> THEN <<>>
    ELSE IF Len(toks) = 1 THEN toks[1]
    ELSE toks[1] \o sep \o join(Tail(toks), sep)

\* A /proc/diskstats line of 14 fields for the device: major, minor, name and
\* the 11 counters, each 1.
full_line(name) ==
    join(<<<<"8">>, <<"0">>, name>> \o [i \in 1..11 |-> <<"1">>], <<" ">>)

\* (The classifier and the reader do no arithmetic that could overflow: they
\* are the same in both builds.)
InitClassify ==
    /\ build = "release"
    /\ CtlIdle
    /\ fn = "input"
    /\ ret = <<>>
    /\ arg \in Names

\* if is_partition(&name) { continue; } stats.insert(name, ...), for one line
\* of 14 fields that names the device
CallIsPartition ==
    /\ fn = "input"
    /\ ret' = [partition |-> is_partition(arg),
               stats |-> read_disk_stats(<<full_line(arg)>>)]
    /\ fn' = "is_partition"
    /\ UNCHANGED <<build, ctl, arg>>

NextClassify == CallIsPartition

SpecClassify == InitClassify /\ [][NextClassify]_vars

\* The texts of a counter field, each with the number it stands for (none for
\* a text that is no u64).
FieldTexts ==
    {[text |-> <<"7">>,
      number |-> TRUE, val |-> <<0, 0, 0, 7>>],
     [text |-> <<"1", "2">>,
      number |-> TRUE, val |-> <<0, 0, 0, 12>>],
     [text |-> <<"x">>,
      number |-> FALSE, val |-> <<0, 0, 0, 0>>],
     [text |-> <<"-", "1">>,
      number |-> FALSE, val |-> <<0, 0, 0, 0>>],
     [text |-> <<"+", "5">>,
      number |-> TRUE, val |-> <<0, 0, 0, 5>>],
     [text |-> <<"0", "0", "7">>,
      number |-> TRUE, val |-> <<0, 0, 0, 7>>],
     [text |-> <<"6", "5", "5", "3", "6">>,
      number |-> TRUE, val |-> <<0, 0, 1, 0>>],
     [text |-> <<"1", "8", "4", "4", "6", "7", "4", "4", "0", "7", "3", "7", "0", "9", "5", "5", "1", "6", "1", "5">>,
      number |-> TRUE, val |-> <<65535, 65535, 65535, 65535>>],
     [text |-> <<"1", "8", "4", "4", "6", "7", "4", "4", "0", "7", "3", "7", "0", "9", "5", "5", "1", "6", "1", "6">>,
      number |-> FALSE, val |-> <<0, 0, 0, 0>>],
     [text |-> <<"9", "9", "9", "9", "9", "9", "9", "9", "9", "9", "9", "9", "9", "9", "9", "9", "9", "9", "9", "9">>,
      number |-> FALSE, val |-> <<0, 0, 0, 0>>]}

\* the texts that fill the other fields of a generated line
FillTexts == {t \in FieldTexts : t.text \in {<<"7">>, <<"x">>}}

\* The device names of generated lines, each with what it is.
LineNames ==
    {[name |-> <<"s", "d", "a">>, whole |-> TRUE],
     [name |-> <<"n", "v", "m", "e", "0", "n", "1">>, whole |-> TRUE],
     [name |-> <<"s", "d", "a", "1">>, whole |-> FALSE]}

\* the usual layout of a line: a blank between the fields
Plain == [lead |-> <<>>, sep |-> <<" ">>, trail |-> <<>>, splits |-> TRUE]

\* The layouts of a line: what leads it, what separates its fields, what
\* trails it, and whether the separator is white space.
Layouts ==
    {Plain,
     [lead |-> <<" ", " ", " ">>, sep |-> <<" ", " ">>, trail |-> <<"\r">>,
      splits |-> TRUE]}

\* the layouts whose separator is one character: a white space other than
\* the blank, or a character that is no white space (the underscore, U+001C,
\* U+001F, U+200B, U+FEFF)
CharLayouts ==
    {[lead |-> <<>>, sep |-> <<w>>, trail |-> <<>>, splits |-> TRUE] :
        w \in Whitespace \ {" ", "\n"}}
    \cup
    {[lead |-> <<>>, sep |-> <<w>>, trail |-> <<>>, splits |-> FALSE] :
        w \in {"_", "", "", "U+200B", "﻿"}}

\* A generated line: the name, then n counter fields, all t1 but the j-th, t2.
GenLines ==
    {[name |-> d.name, whole |-> d.whole,
      fields |-> [i \in 1..n |-> IF i = j THEN t2 ELSE t1],
      layout |-> l] :
        d \in LineNames, n \in 0..(MaxFields - 3), j \in 1..(MaxFields - 3),
        t1 \in FillTexts, t2 \in FieldTexts, l \in Layouts}
    \cup
    {[name |-> <<"s", "d", "a">>, whole |-> TRUE,
      fields |-> [i \in 1..n |-> t],
      layout |-> l] :
        n \in 0..(MaxFields - 3), t \in {t \in FieldTexts : t.text = <<"7">>},
        l \in CharLayouts}

\* the text of a generated line
line_text(g) ==
    g.layout.lead
        \o join(<<<<"8">>, <<"0">>, g.name>> \o [i \in 1..Len(g.fields) |-> g.fields[i].text],
                g.layout.sep)
        \o g.layout.trail

\* Lines that may follow the generated one.
AfterLines ==
    {<<>>,
     <<[name |-> <<"s", "d", "a">>, whole |-> TRUE,
        fields |-> [i \in 1..11 |-> CHOOSE t \in FieldTexts : t.text = <<"1", "2">>],
        layout |-> Plain]>>,
     <<[name |-> <<"s", "d", "b">>, whole |-> TRUE,
        fields |-> [i \in 1..4 |-> CHOOSE t \in FieldTexts : t.text = <<"1", "2">>],
        layout |-> Plain]>>}

InitRead ==
    /\ build = "release"
    /\ CtlIdle
    /\ fn = "input"
    /\ ret = <<>>
    /\ \E g \in GenLines, a \in AfterLines :
          arg = [lines |-> <<g>> \o a,
                 content |-> [i \in 1..(1 + Len(a)) |-> line_text((<<g>> \o a)[i])]]

\* let curr_disk = read_disk_stats()?;  on the content read
CallReadDiskStats ==
    /\ fn = "input"
    /\ ret' = read_disk_stats(arg.content)
    /\ fn' = "read_disk_stats"
    /\ UNCHANGED <<build, ctl, arg>>

NextRead == CallReadDiskStats

SpecRead == InitRead /\ [][NextRead]_vars

----------------------------------------------------------------------------
(* Properties of the report cycle (under Spec and SpecLate) *)

\* C1: without omit-first, the first report feeds metric derivation the first
\* snapshot's own since-boot values with elapsed = 1.0: the CPU counters of
\* the snapshot, and for every device of the snapshot that device's counters.
C1_FirstReportIsOwnDelta ==
    (out.kind = "first" /\ ~out.panicked) =>
        /\ out.elapsed = "1.0"
        /\ out.show_cpu => out.cpu = hist_cpu[2]
        /\ out.show_device =>
              \A d \in DOMAIN hist_disk[2] :
                  d \in DOMAIN out.dev /\ out.dev[d] = hist_disk[2][d]

\* C3: with an unbounded count (args.count = 0) and no read failing, main()
\* never returns.
C3_UnboundedNeverReturns ==
    (args_count = Small(0, 2) /\ ~read_failed) => pc # "done"

\* In a run with count 0 the reports made and the reports left add up to
\* u32::MAX, and the sleeps and snapshots follow the reports as InitLate says.
LateStatesAreOnTheRun ==
    (args_count = Small(0, 2) /\ pc \notin {"start", "panicked", "idle"}) =>
        /\ add(emitted, Widen(count)) = [overflow |-> FALSE, val |-> Widen(U32_MAX)]
        /\ pc = "read_cpu" =>
              /\ sleeps = (IF omit_first THEN Succ(emitted) ELSE emitted)
              /\ snapshots = sleeps
              /\ hist_cpu[2] = prev_cpu
              /\ hist_disk[2] = prev_disk

\* C4: for a count N >= 1 and no read failing, main() returns Ok after exactly
\* N reports, the since-boot report being one of them unless omitted: it never
\* ends otherwise, the reports made and the reports left always add up to N,
\* main() is done exactly when none is left, and by then it slept once per
\* interval report and took one snapshot more than it slept.
C4_ExactlyNReports ==
    (args_count # Small(0, 2) /\ ~read_failed /\ pc # "idle") =>
        /\ pc # "panicked"
        /\ pc # "start" =>
              /\ add(emitted, Widen(count)).val = Widen(args_count)
              /\ (pc = "done") <=> (count = Small(0, 2))
        /\ pc = "done" =>
              /\ emitted = Widen(args_count)
              /\ Succ(sleeps) = (IF omit_first THEN Succ(emitted) ELSE emitted)
              /\ snapshots = Succ(sleeps)

\* C5: once a read of the CPU or disk counters has failed, main() has
\* returned the error with nothing printed in that iteration, and no step
\* follows: no retry, sleep, snapshot or report.
C5_ReadFailureAborts ==
    /\ [](read_failed => (pc = "failed" /\ out = NoReport))
    /\ [][~read_failed /\ (read_failed' => (emitted' = emitted /\ out' = out))]_vars

\* C5 happens: in a later iteration the CPU counters were read and the read of
\* the disk counters then failed.
C5_Witness ==
    /\ read_failed
    /\ pc = "failed"
    /\ Less(Tally(0), emitted)
    /\ Less(Tally(0), sleeps)
    /\ hist_cpu[2] = curr_cpu
    /\ curr_cpu # prev_cpu

\* C10: in every interval report the devices reported (when the device section
\* is shown) are exactly those of the snapshot just taken that the snapshot
\* taken immediately before has too, each with its delta against that
\* snapshot's entry; the CPU delta is against that snapshot too; and afterwards
\* the stored previous snapshot is the one just taken.
C10_PairsWithPrecedingSnapshot ==
    out.kind = "interval" =>
        /\ out.show_cpu = show_cpu
        /\ out.show_device = show_device
        /\ out.show_device =>
              out.dev = [d \in DOMAIN hist_disk[2] \cap DOMAIN hist_disk[1] |->
                            DiskStats_delta(hist_disk[2][d], hist_disk[1][d])]
        /\ out.show_cpu => out.cpu = CpuStats_delta(hist_cpu[2], hist_cpu[1])
        /\ prev_cpu = hist_cpu[2]
        /\ prev_disk = hist_disk[2]

----------------------------------------------------------------------------
(* Properties of the delta engine and the percentages (under SpecDelta) *)

\* C7: the delta's io_in_progress is the current record's, whatever the
\* previous record's is.
C7_GaugeIsCurrent ==
    fn = "DiskStats::delta" => ret.delta.io_in_progress = arg.self.io_in_progress

\* C7 happens: the previous gauge is above the current one, which is not 0.
C7_Witness ==
    /\ fn = "DiskStats::delta"
    /\ Less(ZERO, arg.self.io_in_progress)
    /\ Less(arg.self.io_in_progress, arg.prev.io_in_progress)

\* the 10 cumulative fields of DiskStats
CumulativeDiskFields == DiskFields \ {"io_in_progress"}

\* max(current - previous, 0), said by cases: d + p is c, with no carry out of
\* 64 bits, when c >= p, and d is 0 when c < p
IsClampedDifference(d, c, p) ==
    /\ ~Less(c, p) => add(d, p) = [overflow |-> FALSE, val |-> c]
    /\ Less(c, p) => d = ZERO

\* C8: each of the 8 CPU fields and the 10 cumulative disk fields of a delta
\* is max(current - previous, 0).
C8_SaturatingDelta ==
    /\ fn = "CpuStats::delta" =>
          \A f \in CpuFields :
              IsClampedDifference(ret.delta[f], arg.self[f], arg.prev[f])
    /\ fn = "DiskStats::delta" =>
          \A f \in CumulativeDiskFields :
              IsClampedDifference(ret.delta[f], arg.self[f], arg.prev[f])

\* C8 happens: one CPU field went down from u64::MAX (a reset) while the
\* others went up.
C8_Witness ==
    /\ fn = "CpuStats::delta"
    /\ \E f \in CpuFields :
          /\ arg.prev[f] = U64_MAX
          /\ Less(arg.self[f], arg.prev[f])
          /\ ret.delta[f] = ZERO
    /\ \E f \in CpuFields : Less(arg.prev[f], arg.self[f]) /\ ret.delta[f] # ZERO

RECURSIVE SumOf(_)
\* the sum of the numbers of s, a limb wider than they are
SumOf(s) ==
    IF s = <<>> THEN Small(0, 5) ELSE add(Widen(Head(s)), SumOf(Tail(s))).val

\* the sum of the 8 fields of a CPU record
SumOfFields(c) ==
    SumOf(<<c.user, c.nice, c.system, c.idle, c.iowait, c.irq, c.softirq, c.steal>>)

\* C9: percentages() returns; when the delta's fields sum to more than 0, the
\* six percentages are fractions of that sum whose numerators add up to it (so
\* they sum to 100); when they sum to 0, the six percentages are all 0.
C9_PercentagesSumTo100 ==
    fn = "CpuStats::percentages" =>
        /\ ~ret.panic
        /\ SumOfFields(ret.delta) # Small(0, 5) =>
              /\ \A i \in 1..6 : Widen(ret.pct[i].den) = SumOfFields(ret.delta)
              /\ SumOf([i \in 1..6 |-> ret.pct[i].num]) = SumOfFields(ret.delta)
        /\ SumOfFields(ret.delta) = Small(0, 5) =>
              \A i \in 1..6 : ret.pct[i] = PctZero

----------------------------------------------------------------------------
(* Properties of the classifier (under SpecClassify) and of the reader
   (under SpecRead) *)

\* a loop device with no partition suffix: "loop" and a device number
IsLoopDevice(name) ==
    /\ Len(name) > 4
    /\ SubSeq(name, 1, 4) = <<"l", "o", "o", "p">>
    /\ \A i \in 5..Len(name) : name[i] \in Digits

\* C2: sda, nvme0n1 and loop0 are whole disks, sda1, nvme0n1p1 and loop0p1
\* are partitions, and every loop device without a partition suffix is a whole
\* disk and is kept in the device map.
C2_ClassifierExamples ==
    fn = "is_partition" =>
        /\ arg = <<"s", "d", "a">> => ~ret.partition
        /\ arg = <<"s", "d", "a", "1">> => ret.partition
        /\ arg = <<"n", "v", "m", "e", "0", "n", "1">> => ~ret.partition
        /\ arg = <<"n", "v", "m", "e", "0", "n", "1", "p", "1">> => ret.partition
        /\ arg = <<"l", "o", "o", "p", "0">> => ~ret.partition
        /\ arg = <<"l", "o", "o", "p", "0", "p", "1">> => ret.partition
        /\ IsLoopDevice(arg) => (~ret.partition /\ arg \in DOMAIN ret.stats)

\* the counters of a line in the order of their fields
FieldOrder ==
    <<"reads_completed", "reads_merged", "sectors_read", "read_time_ms",
      "writes_completed", "writes_merged", "sectors_written", "write_time_ms",
      "io_in_progress", "io_time_ms", "weighted_io_time_ms">>

\* The counters a generated line stands for: each field's number, and zero for
\* a field that is no number or is missing.
LineCounters(g) ==
    [f \in DiskFields |->
        LET k == CHOOSE i \in 1..11 : FieldOrder[i] = f
        IN  IF k <= Len(g.fields) THEN g.fields[k].val ELSE ZERO]

\* the whitespace-separated fields of a generated line: major, minor, name
\* and the counter fields, or the one field of a line with no white space
FieldCount(g) == IF g.layout.splits THEN 3 + Len(g.fields) ELSE 1

\* no later line of the content names the same device
IsLastOfName(lines, i) == \A j \in (i + 1)..Len(lines) : lines[j].name # lines[i].name

\* C6 as stated: a line of a whole-disk device with fewer than 11 counter
\* fields still gives the device an entry, the missing fields zero.
C6_ShortLineKept ==
    fn = "read_disk_stats" =>
        \A i \in 1..Len(arg.lines) :
            (/\ arg.lines[i].whole
             /\ arg.lines[i].layout.splits
             /\ Len(arg.lines[i].fields) < 11) =>
                /\ arg.lines[i].name \in DOMAIN ret
                /\ IsLastOfName(arg.lines, i) =>
                      ret[arg.lines[i].name] = LineCounters(arg.lines[i])

\* C6, amended: the devices of the map are exactly the whole-disk devices
\* named by a line of at least 14 whitespace-separated fields (major, minor,
\* name and 11 counters or more); a shorter line is discarded; an entry holds
\* the counters of the last such line of its device, a field that is no
\* number being zero.
C6_LineKeptIffFourteenFields ==
    fn = "read_disk_stats" =>
        /\ DOMAIN ret =
              {arg.lines[i].name : i \in
                  {k \in 1..Len(arg.lines) :
                      arg.lines[k].whole /\ FieldCount(arg.lines[k]) >= 14}}
        /\ \A i \in 1..Len(arg.lines) :
              (/\ arg.lines[i].whole
               /\ FieldCount(arg.lines[i]) >= 14
               /\ IsLastOfName(arg.lines, i)) =>
                  ret[arg.lines[i].name] = LineCounters(arg.lines[i])

\* C6 happens: a whole-disk line of exactly 14 fields, one of them no number,
\* gave an entry with that counter zero, and a short line after it gave none.
C6_Witness ==
    /\ fn = "read_disk_stats"
    /\ Len(arg.lines) = 2
    /\ arg.lines[1].whole
    /\ FieldCount(arg.lines[1]) = 14
    /\ \E k \in 1..11 : ~arg.lines[1].fields[k].number
    /\ \E k \in 1..11 : arg.lines[1].fields[k].number
    /\ arg.lines[1].name \in DOMAIN ret
    /\ \E f \in DiskFields : ret[arg.lines[1].name][f] = ZERO
    /\ arg.lines[2].whole
    /\ FieldCount(arg.lines[2]) < 14
    /\ arg.lines[2].name \notin DOMAIN ret

====
